---- MODULE Spec2Model ----
(***************************************************************************)
(* RotationControl (src/app/detection/components/RotationControl.tsx): a   *)
(* React component that reports rotation angles through its onChange       *)
(* callback.  The model covers the component's two useState cells, the     *)
(* document-level listeners its effect registers, and every handler.       *)
(*                                                                         *)
(* One action is one dispatched event together with the re-render and the  *)
(* effect run it causes: React commits the state updates of a discrete     *)
(* event (mouse, touch, key, click) and flushes the effects of that commit *)
(* before the next event is dispatched.                                    *)
(***************************************************************************)
EXTENDS Integers, Sequences, FiniteSets, TLC

VARIABLES
    mounted,     \* the component is in the tree
    rotation,    \* the rotation prop of the current render (owned by the parent)
    showSlider,  \* the showSlider prop of the current render
    isDragging,  \* useState(false)
    dragStart,   \* useState({ x: 0, y: 0, rotation: 0 })
    listeners,   \* the document's listener list, in registration order
    cleanup,     \* the listeners the last effect run registered (its cleanup closure)
    lastEv,      \* the event dispatched last, with what the handler was given
    calls,       \* the arguments of the onChange calls made during that event
    prevented,   \* preventDefault() was called on that event
    session,     \* history: the phase of the drag session ("idle", "dragging",
                 \* "ended"), the pointer x and rotation prop at its start, and
                 \* whether it started while another drag was going on
    fn           \* the cell of the function-level specifications

vars == <<mounted, rotation, showSlider, isDragging, dragStart, listeners,
          cleanup, lastEv, calls, prevented, session, fn>>

----------------------------------------------------------------------------
(* Program constants *)

\* value % 360, normalized + 360
FullTurn == 360

\* rotation - 15, rotation + 15
StepDegrees == 15

\* Math.min(359, ...)
MaxAngle == 359

----------------------------------------------------------------------------
(* Bounds of the model *)

\* normalizeRotation is applied to every integer in -MaxAbsInput..MaxAbsInput
MaxAbsInput == 725

\* the periodicity shift k ranges over -MaxShift..MaxShift
MaxShift == 2

\* typed texts have at most MaxTextLen characters
MaxTextLen == 3

\* a touch event carries 0..MaxTouches contacts
MaxTouches == 2

\* slider arrays have at most MaxSliderLen elements
MaxSliderLen == 2

\* pointer x coordinates are the multiples of CoordStep up to CoordStep * MaxCoordIdx
MaxCoordIdx == 2

\* distance between two modelled pointer x coordinates
CoordStep == 30

----------------------------------------------------------------------------
(* ECMAScript Number values.  A Number is an IEEE-754 binary64; the model  *)
(* keeps the integers (exact in binary64 at these magnitudes), NaN, and    *)
(* NegTiny, which stands for any double x with -2^-45 <= x < 0 (such as    *)
(* -1e-15): for these x % 360 is x itself and x + 360 rounds to 360,       *)
(* because doubles in [256, 512) are 2^-44 apart.  Undefined is the value  *)
(* of an array index that is out of range.                                 *)

Num(i) == [kind |-> "num", v |-> i]

NaN == [kind |-> "NaN", v |-> 0]

NegTiny == [kind |-> "negtiny", v |-> 0]

Undefined == [kind |-> "undefined", v |-> 0]

IsNum(a) == a.kind = "num"

\* ToNumber: undefined converts to NaN
ToNumber(a) == IF a.kind = "undefined" THEN NaN ELSE a

\* a % m for an integer m > 0: the remainder takes the sign of the dividend
JsRem(a, m) ==
    LET n == ToNumber(a) IN
    CASE n.kind = "NaN" -> NaN
      [] n.kind = "negtiny" -> NegTiny
      [] OTHER -> IF n.v >= 0 THEN Num(n.v % m) ELSE Num(-((-n.v) % m))

\* a < 0; every comparison with NaN is false
JsLtZero(a) ==
    CASE a.kind = "NaN" -> FALSE
      [] a.kind = "negtiny" -> TRUE
      [] OTHER -> a.v < 0

\* a + i for an integer i, rounded to the nearest double
JsAdd(a, i) ==
    CASE a.kind = "NaN" -> NaN
      [] a.kind = "negtiny" -> IF i = 0 THEN NegTiny ELSE Num(i)
      [] OTHER -> Num(a.v + i)

\* faulty variant: the negative remainder is returned as it is
normalizeRotationNoWrap(value) == JsRem(value, FullTurn)

\* faulty variant: the test is normalized <= 0, so a remainder of 0 is wrapped too
normalizeRotationWrapsZero(value) ==
    LET normalized == JsRem(value, FullTurn) IN
    IF JsLtZero(normalized) \/ normalized = Num(0)
    THEN JsAdd(normalized, FullTurn)
    ELSE normalized

\* const normalized = value % 360; return normalized < 0 ? normalized + 360 : normalized
normalizeRotation(value) ==
    LET normalized == JsRem(value, FullTurn) IN
    IF JsLtZero(normalized) THEN JsAdd(normalized, FullTurn) ELSE normalized

----------------------------------------------------------------------------
(* Inputs *)

\* pointer coordinates (clientX, clientY)
Coords == {i * CoordStep : i \in 0..MaxCoordIdx}

Ys == {0, CoordStep}

Points == [clientX : Coords, clientY : Ys]

\* the sequences over S of length at most n
RECURSIVE SeqsUpTo(_, _)
SeqsUpTo(S, n) ==
    IF n = 0 THEN {<<>>}
    ELSE LET shorter == SeqsUpTo(S, n - 1) IN
         shorter \cup {Append(q, e) : q \in shorter, e \in S}

\* a further finger on the screen; the handlers read e.touches.length and
\* e.touches[0] only, so the further contacts all sit at one point
OtherFinger == [clientX |-> CoordStep, clientY |-> CoordStep]

\* e.touches: a list of 0..MaxTouches contacts
TouchLists ==
    {<<>>} \cup {<<p>> \o [i \in 1..k |-> OtherFinger] : p \in Points, k \in 0..(MaxTouches - 1)}

\* values of the rotation prop: in range, at both ends of it, and outside it
RotationProps == {-10, 5, 100, 350, MaxAngle, FullTurn + 10}

\* e.key
Keys == {"ArrowLeft", "ArrowRight", "ArrowUp", "Enter"}

\* e.target.value: strings over a small alphabet ("x" is not in it, so parseInt
\* never sees a hexadecimal prefix)
Chars == {"-", "0", "2", "4", "a", " "}

Texts == SeqsUpTo(Chars, MaxTextLen)

\* the texts typed in the component specification
SampleTexts == {<<>>, <<"-", "2", "0">>, <<"4", "0", "0">>, <<"a">>, <<"2", "a">>, <<"2">>}

\* the slider's value: number | number[]
SliderScalar(n) == [isArray |-> FALSE, num |-> n, arr |-> <<>>]

SliderArray(a) == [isArray |-> TRUE, num |-> Num(0), arr |-> a]

SliderValues ==
    {SliderScalar(n) : n \in {Num(0), Num(90), Num(MaxAngle), Num(FullTurn), Num(-10)}}
    \cup {SliderArray(a) : a \in SeqsUpTo({Num(90), Num(FullTurn + 40)}, MaxSliderLen)}

----------------------------------------------------------------------------
(* The drag state and the effect *)

\* useState({ x: 0, y: 0, rotation: 0 })
InitialDragStart == [x |-> 0, y |-> 0, rotation |-> 0]

\* a listener is a closure of one render: it reads that render's isDragging and dragStart
Listener(type, d, ds) == [type |-> type, isDragging |-> d, dragStart |-> ds]

\* the effect body: the document.addEventListener calls of a render
useEffect(d, ds) ==
    IF d
    THEN << Listener("mousemove", d, ds), Listener("mouseup", d, ds),
            Listener("touchmove", d, ds), Listener("touchend", d, ds) >>
    ELSE << >>

\* document.removeEventListener(type, listener)
RECURSIVE RemoveOne(_, _)
RemoveOne(list, l) ==
    IF list = << >> THEN << >>
    ELSE IF Head(list) = l THEN Tail(list)
    ELSE << Head(list) >> \o RemoveOne(Tail(list), l)

\* faulty variant: the cleanup forgets the touch listeners
RECURSIVE RunCleanupMouseOnly(_, _)
RunCleanupMouseOnly(list, registered) ==
    IF registered = << >> THEN list
    ELSE IF Head(registered).type \in {"touchmove", "touchend"}
    THEN RunCleanupMouseOnly(list, Tail(registered))
    ELSE RunCleanupMouseOnly(RemoveOne(list, Head(registered)), Tail(registered))

\* the cleanup closure the effect returned: one removeEventListener per listener
RECURSIVE RunCleanup(_, _)
RunCleanup(list, registered) ==
    IF registered = << >> THEN list
    ELSE RunCleanup(RemoveOne(list, Head(registered)), Tail(registered))

\* faulty variant: the effect returns no cleanup, so the listeners of the
\* previous render stay registered
CommitWithoutCleanup(d, ds) ==
    /\ listeners' = listeners \o useEffect(d, ds)
    /\ cleanup' = useEffect(d, ds)

\* a commit whose dependencies [isDragging, dragStart] changed: the previous
\* effect's cleanup runs, then the effect of the new render
Commit(d, ds) ==
    /\ listeners' = RunCleanup(listeners, cleanup) \o useEffect(d, ds)
    /\ cleanup' = useEffect(d, ds)

\* the listeners of one event type, in registration order
OfType(list, type) == SelectSeq(list, LAMBDA l : l.type = type)

\* the event record kept in lastEv
Ev(kind) ==
    [kind |-> kind, x |-> 0, y |-> 0, n |-> 0, key |-> "", text |-> << >>,
     value |-> SliderScalar(Num(0))]

\* no drag has started since the component was mounted
NoSession == [phase |-> "idle", x0 |-> 0, r0 |-> 0, restarted |-> FALSE]

FnIdle ==
    [op |-> "none", x |-> Num(0), k |-> 0, out |-> Num(0), shifted |-> Num(0),
     twice |-> Num(0), entry |-> Num(0), entryTwice |-> Num(0), done |-> FALSE]

ComponentInit ==
    /\ mounted = TRUE
    /\ rotation \in RotationProps
    /\ showSlider \in BOOLEAN
    /\ isDragging = FALSE
    /\ dragStart = InitialDragStart
    /\ listeners = << >>
    /\ cleanup = << >>
    /\ lastEv = Ev("mount")
    /\ calls = << >>
    /\ prevented = FALSE
    /\ session = NoSession

Init == ComponentInit /\ fn = FnIdle

----------------------------------------------------------------------------
(* Drag start *)

\* setIsDragging(true); setDragStart({ x, y, rotation }), then the commit
StartDrag(x, y) ==
    /\ isDragging' = TRUE
    /\ dragStart' = [x |-> x, y |-> y, rotation |-> rotation]
    /\ Commit(TRUE, [x |-> x, y |-> y, rotation |-> rotation])
    /\ session' = [phase |-> "dragging", x0 |-> x, r0 |-> rotation,
                   restarted |-> isDragging]

\* onMouseDown of the circular control (compact mode)
handleMouseDown(e) ==
    /\ mounted /\ ~showSlider
    /\ StartDrag(e.clientX, e.clientY)
    /\ lastEv' = [Ev("mousedown") EXCEPT !.x = e.clientX, !.y = e.clientY]
    /\ calls' = << >>
    /\ prevented' = FALSE
    /\ UNCHANGED <<mounted, rotation, showSlider, fn>>

\* faulty variant: any touch-start with a contact starts a drag
handleTouchStartAnyCount(touches) ==
    /\ mounted /\ ~showSlider
    /\ IF Len(touches) >= 1
       THEN StartDrag(touches[1].clientX, touches[1].clientY)
       ELSE UNCHANGED <<isDragging, dragStart, listeners, cleanup, session>>
    /\ lastEv' = [Ev("touchstart") EXCEPT
                    !.n = Len(touches),
                    !.x = IF Len(touches) >= 1 THEN touches[1].clientX ELSE 0,
                    !.y = IF Len(touches) >= 1 THEN touches[1].clientY ELSE 0]
    /\ calls' = << >>
    /\ prevented' = FALSE
    /\ UNCHANGED <<mounted, rotation, showSlider, fn>>

\* onTouchStart of the circular control (compact mode)
handleTouchStart(touches) ==
    /\ mounted /\ ~showSlider
    /\ IF Len(touches) = 1
       THEN StartDrag(touches[1].clientX, touches[1].clientY)
       ELSE UNCHANGED <<isDragging, dragStart, listeners, cleanup, session>>
    /\ lastEv' = [Ev("touchstart") EXCEPT
                    !.n = Len(touches),
                    !.x = IF Len(touches) >= 1 THEN touches[1].clientX ELSE 0,
                    !.y = IF Len(touches) >= 1 THEN touches[1].clientY ELSE 0]
    /\ calls' = << >>
    /\ prevented' = FALSE
    /\ UNCHANGED <<mounted, rotation, showSlider, fn>>

----------------------------------------------------------------------------
(* Drag moves: the document listeners, each a closure l of the render that *)
(* registered it                                                           *)

\* faulty variant: the pointer coordinate is not taken relative to the baseline
handleMouseMoveAbsolute(l, e) ==
    IF ~l.isDragging THEN << >>
    ELSE << normalizeRotation(Num(l.dragStart.rotation + e.clientX)) >>

\* faulty variant: the displacement is added to the rotation prop of the
\* current render instead of the rotation of the baseline
handleMouseMoveFromProp(l, e) ==
    IF ~l.isDragging THEN << >>
    ELSE << normalizeRotation(Num(rotation + (e.clientX - l.dragStart.x))) >>

\* handleMouseMove of closure l on event e: the onChange calls it makes
handleMouseMove(l, e) ==
    IF ~l.isDragging THEN << >>
    ELSE LET deltaX == e.clientX - l.dragStart.x
             newRotation == normalizeRotation(Num(l.dragStart.rotation + deltaX))
         IN << newRotation >>

\* faulty variant: the number of contacts is not checked
TouchMoveAppliesAnyCount(l, touches) == l.isDragging /\ Len(touches) >= 1

\* handleTouchMove passes its guard: e.preventDefault() and onChange are reached
TouchMoveApplies(l, touches) == ~(~l.isDragging \/ Len(touches) # 1)

\* handleTouchMove of closure l on event e: the onChange calls it makes
handleTouchMove(l, touches) ==
    IF ~TouchMoveApplies(l, touches) THEN << >>
    ELSE LET touch == touches[1]
             deltaX == touch.clientX - l.dragStart.x
             newRotation == normalizeRotation(Num(l.dragStart.rotation + deltaX))
         IN << newRotation >>

\* the document dispatches a mousemove to its mousemove listeners in order
RECURSIVE MouseMoveCalls(_, _)
MouseMoveCalls(list, e) ==
    IF list = << >> THEN << >>
    ELSE handleMouseMove(Head(list), e) \o MouseMoveCalls(Tail(list), e)

\* the document dispatches a touchmove to its touchmove listeners in order
RECURSIVE TouchMoveCalls(_, _)
TouchMoveCalls(list, touches) ==
    IF list = << >> THEN << >>
    ELSE handleTouchMove(Head(list), touches) \o TouchMoveCalls(Tail(list), touches)

\* a mousemove anywhere in the document
DocMouseMove(e) ==
    /\ calls' = MouseMoveCalls(OfType(listeners, "mousemove"), e)
    /\ lastEv' = [Ev("mousemove") EXCEPT !.x = e.clientX, !.y = e.clientY]
    /\ prevented' = FALSE
    /\ UNCHANGED <<mounted, rotation, showSlider, isDragging, dragStart,
                   listeners, cleanup, session, fn>>

\* faulty variant: handleTouchMove does not call e.preventDefault()
DocTouchMoveNoPrevent(touches) ==
    /\ calls' = TouchMoveCalls(OfType(listeners, "touchmove"), touches)
    /\ prevented' = FALSE
    /\ lastEv' = [Ev("touchmove") EXCEPT
                    !.n = Len(touches),
                    !.x = IF Len(touches) >= 1 THEN touches[1].clientX ELSE 0,
                    !.y = IF Len(touches) >= 1 THEN touches[1].clientY ELSE 0]
    /\ UNCHANGED <<mounted, rotation, showSlider, isDragging, dragStart,
                   listeners, cleanup, session, fn>>

\* a touchmove anywhere in the document
DocTouchMove(touches) ==
    /\ calls' = TouchMoveCalls(OfType(listeners, "touchmove"), touches)
    /\ prevented' = (\E i \in 1..Len(listeners) :
                        /\ listeners[i].type = "touchmove"
                        /\ TouchMoveApplies(listeners[i], touches))
    /\ lastEv' = [Ev("touchmove") EXCEPT
                    !.n = Len(touches),
                    !.x = IF Len(touches) >= 1 THEN touches[1].clientX ELSE 0,
                    !.y = IF Len(touches) >= 1 THEN touches[1].clientY ELSE 0]
    /\ UNCHANGED <<mounted, rotation, showSlider, isDragging, dragStart,
                   listeners, cleanup, session, fn>>

----------------------------------------------------------------------------
(* Drag end *)

\* faulty variant: the effect does not depend on isDragging, so ending the drag
\* leaves the listeners of the dragging render registered
EndDragStateOnly(type) ==
    IF OfType(listeners, type) # << >> /\ mounted /\ isDragging
    THEN /\ isDragging' = FALSE
         /\ session' = [session EXCEPT !.phase = "ended"]
         /\ UNCHANGED <<dragStart, listeners, cleanup>>
    ELSE UNCHANGED <<isDragging, dragStart, listeners, cleanup, session>>

\* setIsDragging(false) by a listener of the given type, then the commit.  A
\* state update of an unmounted component, or to the value the state already
\* has, renders nothing.
EndDrag(type) ==
    IF OfType(listeners, type) # << >> /\ mounted /\ isDragging
    THEN /\ isDragging' = FALSE
         /\ Commit(FALSE, dragStart)
         /\ session' = [session EXCEPT !.phase = "ended"]
         /\ UNCHANGED dragStart
    ELSE UNCHANGED <<isDragging, dragStart, listeners, cleanup, session>>

\* a mouseup anywhere in the document: handleMouseUp of every mouseup listener
DocMouseUp ==
    /\ EndDrag("mouseup")
    /\ lastEv' = Ev("mouseup")
    /\ calls' = << >>
    /\ prevented' = FALSE
    /\ UNCHANGED <<mounted, rotation, showSlider, fn>>

\* a touchend anywhere in the document: handleTouchEnd of every touchend listener
DocTouchEnd ==
    /\ EndDrag("touchend")
    /\ lastEv' = Ev("touchend")
    /\ calls' = << >>
    /\ prevented' = FALSE
    /\ UNCHANGED <<mounted, rotation, showSlider, fn>>

----------------------------------------------------------------------------
(* Discrete controls *)

\* faulty variant: a discrete control also ends the drag
ReportAndStopDrag(ev, args, prevent) ==
    /\ lastEv' = ev
    /\ calls' = args
    /\ prevented' = prevent
    /\ isDragging' = FALSE
    /\ UNCHANGED <<mounted, rotation, showSlider, dragStart,
                   listeners, cleanup, session, fn>>

\* an event of a discrete control: it reports and leaves the drag state alone
Report(ev, args, prevent) ==
    /\ lastEv' = ev
    /\ calls' = args
    /\ prevented' = prevent
    /\ UNCHANGED <<mounted, rotation, showSlider, isDragging, dragStart,
                   listeners, cleanup, session, fn>>

\* onClick={() => onChange(normalizeRotation(rotation - 15))}
ClickCounterClockwise ==
    /\ mounted /\ ~showSlider
    /\ Report(Ev("ccw"), << normalizeRotation(Num(rotation - StepDegrees)) >>, FALSE)

\* onClick={() => onChange(normalizeRotation(rotation + 15))}
ClickClockwise ==
    /\ mounted /\ ~showSlider
    /\ Report(Ev("cw"), << normalizeRotation(Num(rotation + StepDegrees)) >>, FALSE)

\* faulty variant: the two arrow keys are exchanged
handleKeyDownSwapped(key) ==
    /\ mounted /\ ~showSlider
    /\ IF key = "ArrowLeft"
       THEN Report([Ev("keydown") EXCEPT !.key = key],
                   << normalizeRotation(Num(rotation + StepDegrees)) >>, TRUE)
       ELSE IF key = "ArrowRight"
       THEN Report([Ev("keydown") EXCEPT !.key = key],
                   << normalizeRotation(Num(rotation - StepDegrees)) >>, TRUE)
       ELSE Report([Ev("keydown") EXCEPT !.key = key], << >>, FALSE)

\* onKeyDown of the circular control
handleKeyDown(key) ==
    /\ mounted /\ ~showSlider
    /\ IF key = "ArrowLeft"
       THEN Report([Ev("keydown") EXCEPT !.key = key],
                   << normalizeRotation(Num(rotation - StepDegrees)) >>, TRUE)
       ELSE IF key = "ArrowRight"
       THEN Report([Ev("keydown") EXCEPT !.key = key],
                   << normalizeRotation(Num(rotation + StepDegrees)) >>, TRUE)
       ELSE Report([Ev("keydown") EXCEPT !.key = key], << >>, FALSE)

----------------------------------------------------------------------------
(* The numeric field *)

DigitChars == <<"0", "1", "2", "3", "4", "5", "6", "7", "8", "9">>

IsDigit(c) == \E i \in 1..Len(DigitChars) : DigitChars[i] = c

DigitValue(c) == (CHOOSE i \in 1..Len(DigitChars) : DigitChars[i] = c) - 1

\* leading white space is skipped
RECURSIVE TrimStart(_)
TrimStart(s) ==
    IF s # << >> /\ Head(s) = " " THEN TrimStart(Tail(s)) ELSE s

\* the longest prefix of s made of decimal digits
RECURSIVE DigitPrefix(_)
DigitPrefix(s) ==
    IF s # << >> /\ IsDigit(Head(s)) THEN << Head(s) >> \o DigitPrefix(Tail(s)) ELSE << >>

\* the value of a string of decimal digits
RECURSIVE DigitsValue(_)
DigitsValue(d) ==
    IF d = << >> THEN 0
    ELSE DigitsValue(SubSeq(d, 1, Len(d) - 1)) * 10 + DigitValue(d[Len(d)])

\* parseInt(string) with no radix: white space, an optional sign, then decimal
\* digits up to the first character that is none; NaN when there is no digit
parseInt(string) ==
    LET t == TrimStart(string)
        signed == t # << >> /\ Head(t) \in {"-", "+"}
        sign == IF t # << >> /\ Head(t) = "-" THEN -1 ELSE 1
        digits == DigitPrefix(IF signed THEN Tail(t) ELSE t)
    IN IF digits = << >> THEN NaN ELSE Num(sign * DigitsValue(digits))

\* a || 0 for a Number a: NaN and 0 are falsy
OrZero(a) == IF a.kind = "NaN" \/ (a.kind = "num" /\ a.v = 0) THEN 0 ELSE a.v

MathAbs(i) == IF i < 0 THEN -i ELSE i

MathMin(a, b) == IF a < b THEN a ELSE b

MathMax(a, b) == IF a > b THEN a ELSE b

\* faulty variant: the typed value is wrapped like the other inputs
InputValueWrapped(text) == normalizeRotation(Num(OrZero(parseInt(text))))

\* const value = parseInt(e.target.value) || 0
\* const normalizedValue = Math.max(0, Math.min(359, Math.abs(value)))
InputValue(text) ==
    LET value == OrZero(parseInt(text))
        normalizedValue == MathMax(0, MathMin(MaxAngle, MathAbs(value)))
    IN Num(normalizedValue)

\* onChange of the numeric field (both presentation modes)
handleInputChange(text) ==
    /\ mounted
    /\ Report([Ev("input") EXCEPT !.text = text], << InputValue(text) >>, FALSE)

----------------------------------------------------------------------------
(* The slider *)

\* const rotationValue = Array.isArray(value) ? value[0] : value
SliderRotationValue(value) ==
    IF value.isArray
    THEN IF Len(value.arr) >= 1 THEN value.arr[1] ELSE Undefined
    ELSE value.num

\* onChange of the slider (slider mode)
handleSliderChange(value) ==
    /\ mounted /\ showSlider
    /\ Report([Ev("slider") EXCEPT !.value = value],
              << normalizeRotation(SliderRotationValue(value)) >>, FALSE)

----------------------------------------------------------------------------
(* The parent *)

\* the parent renders the component again with new props: no dependency of the
\* effect changed, so the registered listeners stay
ParentRender(r, s) ==
    /\ mounted
    /\ rotation' = r
    /\ showSlider' = s
    /\ lastEv' = Ev("render")
    /\ calls' = << >>
    /\ prevented' = FALSE
    /\ UNCHANGED <<mounted, isDragging, dragStart, listeners, cleanup, session, fn>>

\* the component is removed from the tree: the effect's cleanup runs and the
\* component's state is discarded
Unmount ==
    /\ mounted
    /\ mounted' = FALSE
    /\ listeners' = RunCleanup(listeners, cleanup)
    /\ cleanup' = << >>
    /\ isDragging' = FALSE
    /\ dragStart' = InitialDragStart
    /\ session' = NoSession
    /\ lastEv' = Ev("unmount")
    /\ calls' = << >>
    /\ prevented' = FALSE
    /\ UNCHANGED <<rotation, showSlider, fn>>

\* the component is mounted again, with fresh state
Mount(r, s) ==
    /\ ~mounted
    /\ mounted' = TRUE
    /\ rotation' = r
    /\ showSlider' = s
    /\ lastEv' = Ev("mount")
    /\ calls' = << >>
    /\ prevented' = FALSE
    /\ UNCHANGED <<isDragging, dragStart, listeners, cleanup, session, fn>>

----------------------------------------------------------------------------
(* The component specification *)

Next ==
    \/ \E e \in Points : handleMouseDown(e)
    \/ \E t \in TouchLists : handleTouchStart(t)
    \/ \E e \in Points : DocMouseMove(e)
    \/ \E t \in TouchLists : DocTouchMove(t)
    \/ DocMouseUp
    \/ DocTouchEnd
    \/ ClickCounterClockwise
    \/ ClickClockwise
    \/ \E k \in Keys : handleKeyDown(k)
    \/ \E t \in SampleTexts : handleInputChange(t)
    \/ \E v \in SliderValues : handleSliderChange(v)
    \/ \E r \in RotationProps, s \in BOOLEAN : ParentRender(r, s)
    \/ Unmount
    \/ \E r \in RotationProps, s \in BOOLEAN : Mount(r, s)

Spec == Init /\ [][Next]_vars

----------------------------------------------------------------------------
(* normalizeRotation as a function: the input x and the shift k are drawn  *)
(* by the initial state, one step applies the function to x and x + 360*k  *)

NormInputs == {Num(i) : i \in -MaxAbsInput..MaxAbsInput} \cup {NegTiny}

Shifts == -MaxShift..MaxShift

InitNorm ==
    /\ ComponentInit
    /\ fn \in {[FnIdle EXCEPT !.op = "normalize", !.x = x, !.k = k] :
                   x \in NormInputs, k \in Shifts}

ApplyNormalize ==
    /\ fn.op = "normalize" /\ ~fn.done
    /\ fn' = [fn EXCEPT !.out = normalizeRotation(fn.x),
                        !.shifted = normalizeRotation(JsAdd(fn.x, FullTurn * fn.k)),
                        !.done = TRUE]
    /\ UNCHANGED <<mounted, rotation, showSlider, isDragging, dragStart,
                   listeners, cleanup, lastEv, calls, prevented, session>>

NextNorm == ApplyNormalize

SpecNorm == InitNorm /\ [][NextNorm]_vars

----------------------------------------------------------------------------
(* The numeric field on every text of the alphabet *)

\* handleInputChange reads e.target.value only: the props are held at one value
InitInput == Init /\ rotation = 100 /\ showSlider = FALSE

NextInput == \E t \in Texts : handleInputChange(t)

SpecInput == InitInput /\ [][NextInput]_vars

----------------------------------------------------------------------------
(* The two coercions applied once and twice to an integer x: normalizeRotation *)
(* to x and to its own result, the numeric field to x typed in decimal and to  *)
(* its own result typed in decimal                                              *)

\* the decimal digits of a natural number
RECURSIVE DigitsOf(_)
DigitsOf(n) ==
    IF n < 10 THEN << DigitChars[n + 1] >>
    ELSE DigitsOf(n \div 10) \o << DigitChars[(n % 10) + 1] >>

\* e.target.value when the integer i is typed into the field
DecimalText(i) == IF i < 0 THEN << "-" >> \o DigitsOf(-i) ELSE DigitsOf(i)

InitCoerce ==
    /\ ComponentInit
    /\ rotation = 100
    /\ showSlider = FALSE
    /\ fn \in {[FnIdle EXCEPT !.op = "coerce", !.x = Num(i)] :
                   i \in -MaxAbsInput..MaxAbsInput}

ApplyCoerce ==
    /\ fn.op = "coerce" /\ ~fn.done
    /\ fn' = [fn EXCEPT
                !.out = normalizeRotation(fn.x),
                !.twice = normalizeRotation(normalizeRotation(fn.x)),
                !.entry = InputValue(DecimalText(fn.x.v)),
                !.entryTwice = InputValue(DecimalText(InputValue(DecimalText(fn.x.v)).v)),
                !.done = TRUE]
    /\ UNCHANGED <<mounted, rotation, showSlider, isDragging, dragStart,
                   listeners, cleanup, lastEv, calls, prevented, session>>

NextCoerce == ApplyCoerce

SpecCoerce == InitCoerce /\ [][NextCoerce]_vars

----------------------------------------------------------------------------
(* Properties *)

\* a is an angle of the canonical range [0, 360)
InRange(a) == a.kind = "num" /\ 0 <= a.v /\ a.v < FullTurn

\* the angle of [0, 360) congruent to the integer i modulo 360
Wrapped(i) == Num(i % FullTurn)

\* the last event was a move of the pointer or of a single finger
PointerMoved ==
    lastEv.kind = "mousemove" \/ (lastEv.kind = "touchmove" /\ lastEv.n = 1)

\* C1: every value passed to onChange lies in [0, 360), whatever the input
\* path and whatever the rotation prop.
EveryReportInRange == \A i \in 1..Len(calls) : InRange(calls[i])

\* C2: the four document listeners are attached exactly while the component
\* is mounted and dragging; none is attached otherwise.
ListenersExactlyWhileDragging ==
    IF mounted /\ isDragging
    THEN [i \in 1..Len(listeners) |-> listeners[i].type]
             = << "mousemove", "mouseup", "touchmove", "touchend" >>
    ELSE listeners = << >>

ListenersReleasedAtDragEnd ==
    /\ mounted
    /\ session.phase = "ended"
    /\ lastEv.kind \in {"mouseup", "touchend"}
    /\ listeners = << >>

\* C3: once a drag has ended, a mouse move or touch move makes no onChange call
\* until a new drag starts.
NoReportAfterDragEnd ==
    (session.phase = "ended" /\ lastEv.kind \in {"mousemove", "touchmove"})
        => calls = << >>

MoveAfterDragEnd ==
    /\ session.phase = "ended"
    /\ lastEv.kind = "mousemove"
    /\ lastEv.x # session.x0
    /\ calls = << >>

\* C4: during a drag, a move at x reports exactly the angle congruent to
\* r0 + (x - x0), x0 and r0 being the pointer x and the rotation prop at the
\* start of that drag; the y coordinate plays no part.
DragMoveReportsBaselinePlusDelta ==
    (session.phase = "dragging" /\ PointerMoved)
        => calls = << Wrapped(session.r0 + (lastEv.x - session.x0)) >>

DragFrom100By30Reports130 ==
    /\ session.phase = "dragging"
    /\ lastEv.kind = "mousemove"
    /\ session.r0 = 100
    /\ lastEv.x - session.x0 = 30
    /\ lastEv.y # 0
    /\ calls = << Num(130) >>

\* C5: normalizeRotation returns, for every input x, the angle in [0, 360)
\* congruent to x modulo 360; -10 gives 350, 370 gives 10, 0 and 360 give 0.
NormalizeInRangeAndCongruent ==
    fn.done =>
        /\ InRange(fn.out)
        /\ IsNum(fn.x) => fn.out = Wrapped(fn.x.v)
        /\ fn.x = Num(-10) => fn.out = Num(350)
        /\ fn.x = Num(370) => fn.out = Num(10)
        /\ fn.x \in {Num(0), Num(360)} => fn.out = Num(0)

\* C6: normalizeRotation has period 360: normalize(x) = normalize(x + 360*k)
\* for every input x and every integer k.
NormalizePeriodic == fn.done => fn.out = fn.shifted

\* C7: the clockwise button reports the angle congruent to rotation + 15 and
\* the counter-clockwise button the one congruent to rotation - 15; at 350 the
\* increment gives 5, at 5 the decrement gives 350.
StepButtonsWrap ==
    /\ lastEv.kind = "cw" => calls = << Wrapped(rotation + 15) >>
    /\ lastEv.kind = "ccw" => calls = << Wrapped(rotation - 15) >>
    /\ (lastEv.kind = "cw" /\ rotation = 350) => calls = << Num(5) >>
    /\ (lastEv.kind = "ccw" /\ rotation = 5) => calls = << Num(350) >>

DecrementAt5Reports350 ==
    lastEv.kind = "ccw" /\ rotation = 5 /\ calls = << Num(350) >>

\* the integer the numeric field parses from a text, 0 when there is none
ParsedOrZero(text) == IF parseInt(text) = NaN THEN 0 ELSE parseInt(text).v

\* C8: a change of the numeric field reports min(359, |n|), n the integer
\* parsed from the text and 0 when the text is no number; "-20" reports 20.
NumericFieldClamps ==
    lastEv.kind = "input" =>
        LET n == ParsedOrZero(lastEv.text)
            magnitude == IF n < 0 THEN -n ELSE n
        IN /\ calls = << Num(IF magnitude > 359 THEN 359 ELSE magnitude) >>
           /\ lastEv.text = << "-", "2", "0" >> => calls = << Num(20) >>
           /\ (\A i \in 1..Len(lastEv.text) : ~IsDigit(lastEv.text[i]))
                  => calls = << Num(0) >>

Minus20Reports20 ==
    lastEv.kind = "input" /\ lastEv.text = << "-", "2", "0" >> /\ calls = << Num(20) >>

\* C9: a touch move with a number of contacts other than one makes no onChange
\* call, also during a drag.
MultiTouchMoveIgnored ==
    (lastEv.kind = "touchmove" /\ lastEv.n # 1) => calls = << >>

TwoFingerMoveWhileDragging ==
    /\ mounted /\ isDragging
    /\ lastEv.kind = "touchmove"
    /\ lastEv.n = 2
    /\ calls = << >>

\* C10: a slider change reports normalize(v), v the value itself or the first
\* element of an array value, and for every array, the empty one included,
\* the reported value is an angle in [0, 360).
SliderReportsValidAngle ==
    lastEv.kind = "slider" =>
        /\ calls = << normalizeRotation(IF lastEv.value.isArray
                                        THEN IF lastEv.value.arr = << >>
                                             THEN Undefined
                                             ELSE Head(lastEv.value.arr)
                                        ELSE lastEv.value.num) >>
        /\ lastEv.value.isArray => InRange(calls[1])

\* C11: ArrowLeft on the circular control reports the angle congruent to
\* rotation - 15 and ArrowRight the one congruent to rotation + 15, each with
\* the default action prevented; any other key reports nothing and prevents
\* nothing.
ArrowKeysStep ==
    lastEv.kind = "keydown" =>
        /\ lastEv.key = "ArrowLeft"
               => (calls = << Wrapped(rotation - 15) >> /\ prevented)
        /\ lastEv.key = "ArrowRight"
               => (calls = << Wrapped(rotation + 15) >> /\ prevented)
        /\ lastEv.key \notin {"ArrowLeft", "ArrowRight"}
               => (calls = << >> /\ ~prevented)

ArrowLeftAt5Reports350 ==
    /\ lastEv.kind = "keydown"
    /\ lastEv.key = "ArrowLeft"
    /\ rotation = 5
    /\ calls = << Num(350) >>
    /\ prevented

\* the last event was a pointer-down or a single-finger touch-start
DragStarted ==
    lastEv.kind = "mousedown" \/ (lastEv.kind = "touchstart" /\ lastEv.n = 1)

\* C12: there is at most one drag session and one set of listeners: a drag
\* start, also one received while dragging, makes the baseline the new pointer
\* coordinate and the current rotation, leaves exactly one set of listeners,
\* all reading the new baseline, and every later move makes exactly one
\* onChange call, relative to that baseline.
OneDragSession ==
    /\ (mounted /\ isDragging) =>
           /\ Len(listeners) = 4
           /\ \A i \in 1..Len(listeners) :
                  listeners[i].isDragging /\ listeners[i].dragStart = dragStart
    /\ DragStarted =>
           /\ isDragging
           /\ dragStart = [x |-> lastEv.x, y |-> lastEv.y, rotation |-> rotation]
    /\ (session.phase = "dragging" /\ PointerMoved) =>
           /\ Len(calls) = 1
           /\ calls[1] = Wrapped(dragStart.rotation + (lastEv.x - dragStart.x))

MoveAfterRestartReportsOnce ==
    /\ session.phase = "dragging"
    /\ session.restarted
    /\ lastEv.kind = "mousemove"
    /\ lastEv.x # dragStart.x
    /\ Len(listeners) = 4
    /\ Len(calls) = 1

\* C13: a touch-start with exactly one contact records that contact's
\* coordinate and the current rotation as the baseline and enters the dragging
\* state; a touch-start with any other number of contacts leaves the dragging
\* flag and the baseline as they were.
TouchStartNeedsOneContact ==
    [][lastEv'.kind = "touchstart" =>
          IF lastEv'.n = 1
          THEN /\ isDragging'
               /\ dragStart' = [x |-> lastEv'.x, y |-> lastEv'.y, rotation |-> rotation]
          ELSE UNCHANGED <<isDragging, dragStart>>]_vars

TwoFingerStartWhileDragging ==
    /\ lastEv.kind = "touchstart"
    /\ lastEv.n = 2
    /\ isDragging
    /\ dragStart.x # lastEv.x

\* C14: a touch move has its default prevented if and only if it is applied,
\* that is the component is dragging and the event has exactly one contact; a
\* prevented touch move makes exactly one onChange call, an ignored one makes
\* none.
TouchMovePreventedIffApplied ==
    lastEv.kind = "touchmove" =>
        /\ prevented <=> (mounted /\ isDragging /\ lastEv.n = 1)
        /\ prevented => Len(calls) = 1
        /\ ~prevented => calls = << >>

AppliedTouchMovePrevented ==
    /\ lastEv.kind = "touchmove"
    /\ isDragging
    /\ lastEv.n = 1
    /\ prevented
    /\ Len(calls) = 1

\* C15: the baseline is fixed for the whole gesture: between a drag start and
\* its end no step (a move, a render with a new rotation prop, any other
\* event) changes it, a move reports the angle congruent to the baseline
\* rotation plus the displacement from the baseline x whatever came before,
\* and a move back to the starting x reports the starting rotation normalized.
BaselineFixedDuringDrag ==
    [][/\ (isDragging /\ isDragging' /\ ~DragStarted') => dragStart' = dragStart
       /\ (session'.phase = "dragging" /\ PointerMoved') =>
              /\ dragStart'.x = session'.x0
              /\ dragStart'.rotation = session'.r0
              /\ calls' = << Wrapped(session'.r0 + (lastEv'.x - session'.x0)) >>
              /\ lastEv'.x = session'.x0 => calls' = << Wrapped(session'.r0) >>]_vars

BackAtStartAfterPropChange ==
    /\ session.phase = "dragging"
    /\ lastEv.kind = "mousemove"
    /\ lastEv.x = session.x0
    /\ rotation # session.r0
    /\ dragStart.rotation = session.r0
    /\ calls = << Wrapped(session.r0) >>

\* the last event was a step-button click, an arrow key, a change of the
\* numeric field or a change of the slider
DiscreteControlUsed ==
    \/ lastEv.kind \in {"cw", "ccw", "input", "slider"}
    \/ (lastEv.kind = "keydown" /\ lastEv.key \in {"ArrowLeft", "ArrowRight"})

\* C16: a step-button click, an arrow key, a numeric-field change or a slider
\* change leaves the dragging flag, the baseline and the attached listeners
\* as they were and makes exactly one onChange call; the component's whole
\* state (the flag and the baseline) is therefore untouched by these events.
DiscreteControlsKeepDragState ==
    [][DiscreteControlUsed' =>
          /\ UNCHANGED <<isDragging, dragStart, listeners, cleanup>>
          /\ Len(calls') = 1]_vars

ClickWhileDragging ==
    /\ lastEv.kind = "cw"
    /\ isDragging
    /\ Len(listeners) = 4
    /\ dragStart.rotation # rotation
    /\ calls = << Wrapped(rotation + 15) >>

\* C17: both coercions are the identity on 0..359 and idempotent: for v in
\* 0..359 normalize(v) = v and typing v reports v; for every integer x,
\* normalize(normalize(x)) = normalize(x) and the clamp min(359, |x|) applied
\* twice gives what it gives applied once.
CoercionsIdentityAndIdempotent ==
    (fn.done /\ fn.op = "coerce") =>
        /\ (0 <= fn.x.v /\ fn.x.v <= 359) => (fn.out = fn.x /\ fn.entry = fn.x)
        /\ fn.twice = fn.out
        /\ fn.entryTwice = fn.entry
        /\ fn.entry = Num(IF fn.x.v < 0
                          THEN (IF -fn.x.v > 359 THEN 359 ELSE -fn.x.v)
                          ELSE (IF fn.x.v > 359 THEN 359 ELSE fn.x.v))

CanonicalAngleKept ==
    /\ fn.done
    /\ fn.op = "coerce"
    /\ fn.x = Num(359)
    /\ fn.out = Num(359)
    /\ fn.entry = Num(359)
    /\ fn.twice = Num(359)
    /\ fn.entryTwice = Num(359)

====
